---- MODULE Spec2Model ----
(***************************************************************************)
(* Model of the polling file watcher of src/src/lib.rs: the FileWatcher    *)
(* handle (add_watch, remove_watch, try_recv, drop), the worker loop of    *)
(* FileWatcher::new and FileWatcherInner (task, init, check).              *)
(*                                                                         *)
(* The file system is the environment.  A file is absent (stat fails),     *)
(* locked (stat succeeds, open fails) or ok; a read of an opened file      *)
(* may fail (read_to_string returning Err), chosen nondeterministically    *)
(* at each read while the behaviour has operations left.  Each call of     *)
(* task and of check is one step: only the worker thread runs them.        *)
(* The variables emitted, live, rdfail, hist, unwatched, regs and failedAt *)
(* are history variables: no action reads them to decide what the program  *)
(* does.                                                                   *)
(***************************************************************************)
EXTENDS Integers, Sequences, FiniteSets, TLC

\* ---- bounds ----
\* what the callers and the environment do in a behaviour: calls of
\* add_watch and remove_watch, changes of the file system, failed reads
\* of poll passes (a registration reads once, so its failures need no bound)
MaxOps   == 3
MaxTime  == 2      \* modification times are 0..MaxTime

PathSeq  == <<"a", "b">>          \* the paths, in BTreeMap (Ord) order
Paths    == {PathSeq[i] : i \in 1..Len(PathSeq)}
Tokens   == {"t1", "t2"}
Contents == {"x", "y"}

VARIABLES
    fs,        \* file system: path -> [st, mtime, content]
    ops,       \* calls, file system changes and failed poll reads so far
    sender,    \* FileWatcher.sender: TRUE while the command sender exists
    handle,    \* FileWatcher lifecycle: "alive", "dropping", "joined"
    cmdq,      \* command channel (itx -> irx)
    events,    \* event channel (tx -> rx)
    sinks,     \* oneshot slots: request id -> sequence of values set
    nreq,      \* number of add_watch calls so far (oneshots created)
    tasks,     \* FileWatcherInner.tasks: path -> Watch
    pc,        \* worker position: "recv", "drain", "check", "done"
    emitted,   \* history: events sent by the last worker step, with path
    live,      \* history: paths registered and not unwatched or evicted
    rdfail,    \* history: paths whose read failed in the last worker step
    hist,      \* history per path: "none"; "added" once add_watch was called;
               \* "updated" once an event was sent since; "removed" when
               \* remove_watch was called while "added"
    unwatched, \* history: paths whose Unwatch was processed, no Watch
               \* succeeded since
    regs,      \* history per path: the request that put each element of
               \* the subscriber list there, in list order
    failedAt   \* history per path: the modification time the last poll
               \* pass saw when its read of the file failed, else -1

vars == <<fs, ops, sender, handle, cmdq, events, sinks, nreq,
          tasks, pc, emitted, live, rdfail, hist, unwatched, regs, failedAt>>

\* ---- FileContent ----
Text(s)  == [kind |-> "Text", s |-> s]
Error    == [kind |-> "Error", s |-> "io"]

\* ---- WatchTask ----
WatchCmd(opaque, tp, path, result) ==
    [kind |-> "Watch", opaque |-> opaque, tp |-> tp, path |-> path,
     result |-> result]
UnwatchCmd(path) ==
    [kind |-> "Unwatch", opaque |-> "t1", tp |-> "Text", path |-> path,
     result |-> 0]

\* ---- struct Watch ----
Watch(opaque, tp, modified) ==
    [opaque |-> opaque, tp |-> tp, modified |-> modified]

\* ---- file system primitives ----
\* fs::metadata(path)?.modified()
StatOk(p) == fs[p].st # "absent"
\* fs::File::open(path)
OpenOk(p) == fs[p].st = "ok"
\* rdr.read_to_string(&mut s): fails when the environment says so
read_to_string(p, fail) == IF fail THEN Error ELSE Text(fs[p].content)

\* a read of p may fail only if p can be opened and failures are left
CanFail(p) == OpenOk(p) /\ ops < MaxOps

\* ---- OneSet::set ----
OneSet(s, rid, c) == [s EXCEPT ![rid] = Append(@, c)]

\* init with a slip: the entry is built even though the read failed
init_keep(opaque, tp, p, fail) ==
    IF ~StatOk(p) \/ ~OpenOk(p)
      THEN [w |-> <<>>, c |-> Error]
      ELSE [w |-> <<Watch(<<opaque>>, tp, fs[p].mtime)>>,
            c |-> read_to_string(p, fail)]

\* ---- FileWatcherInner::init ----
\* the pair (w, c): the entry to insert (<<>> for None) and the content
\* handed to result.set
init(opaque, tp, p, fail) ==
    IF ~StatOk(p) \/ ~OpenOk(p)
      THEN [w |-> <<>>, c |-> Error]
      ELSE IF fail
             THEN [w |-> <<>>, c |-> Error]
             ELSE [w |-> <<Watch(<<opaque>>, tp, fs[p].mtime)>>,
                   c |-> read_to_string(p, FALSE)]

\* the tracked arm with a slip: the result is set only when the read succeeds
WatchTrackedNoSet(t, fail) ==
    LET c == IF OpenOk(t.path) THEN read_to_string(t.path, fail) ELSE Error
    IN  /\ tasks' = [tasks EXCEPT ![t.path].opaque = Append(@, t.opaque)]
        /\ sinks' = IF c.kind = "Text" THEN OneSet(sinks, t.result, c) ELSE sinks
        /\ live' = IF c.kind = "Text" THEN live \cup {t.path} ELSE live
        /\ unwatched' = IF c.kind = "Text" THEN unwatched \ {t.path}
                                           ELSE unwatched

\* the tracked arm as a set of tokens: a token already listed is not pushed
WatchTrackedDedup(t, fail) ==
    LET c == IF OpenOk(t.path) THEN read_to_string(t.path, fail) ELSE Error
        known == \E i \in 1..Len(tasks[t.path].opaque) :
                    tasks[t.path].opaque[i] = t.opaque
    IN  /\ tasks' = IF known THEN tasks
                    ELSE [tasks EXCEPT ![t.path].opaque = Append(@, t.opaque)]
        /\ sinks' = OneSet(sinks, t.result, c)
        /\ live' = IF c.kind = "Text" THEN live \cup {t.path} ELSE live
        /\ unwatched' = IF c.kind = "Text" THEN unwatched \ {t.path}
                                           ELSE unwatched

\* the tracked arm with a slip: the token is inserted at the front
WatchTrackedPrepend(t, fail) ==
    LET c == IF OpenOk(t.path) THEN read_to_string(t.path, fail) ELSE Error
    IN  /\ tasks' = [tasks EXCEPT ![t.path].opaque = <<t.opaque>> \o @]
        /\ sinks' = OneSet(sinks, t.result, c)
        /\ live' = IF c.kind = "Text" THEN live \cup {t.path} ELSE live
        /\ unwatched' = IF c.kind = "Text" THEN unwatched \ {t.path}
                                           ELSE unwatched

\* the tracked arm with a slip: the token is pushed only after a good read
WatchTrackedStrict(t, fail) ==
    LET c == IF OpenOk(t.path) THEN read_to_string(t.path, fail) ELSE Error
    IN  /\ tasks' = IF c.kind = "Text"
                      THEN [tasks EXCEPT ![t.path].opaque = Append(@, t.opaque)]
                      ELSE tasks
        /\ sinks' = OneSet(sinks, t.result, c)
        /\ live' = IF c.kind = "Text" THEN live \cup {t.path} ELSE live
        /\ unwatched' = IF c.kind = "Text" THEN unwatched \ {t.path}
                                           ELSE unwatched

\* the tracked arm with a slip: a good read also stores the file's time
WatchTrackedTouch(t, fail) ==
    LET c == IF OpenOk(t.path) THEN read_to_string(t.path, fail) ELSE Error
    IN  /\ tasks' = [tasks EXCEPT
                       ![t.path].opaque = Append(@, t.opaque),
                       ![t.path].modified =
                           IF c.kind = "Text" THEN fs[t.path].mtime ELSE @]
        /\ sinks' = OneSet(sinks, t.result, c)
        /\ live' = IF c.kind = "Text" THEN live \cup {t.path} ELSE live
        /\ unwatched' = IF c.kind = "Text" THEN unwatched \ {t.path}
                                           ELSE unwatched

\* ---- FileWatcherInner::task, arm Watch on a tracked path ----
WatchTracked(t, fail) ==
    LET c == IF OpenOk(t.path) THEN read_to_string(t.path, fail) ELSE Error
    IN  /\ tasks' = [tasks EXCEPT ![t.path].opaque = Append(@, t.opaque)]
        /\ sinks' = OneSet(sinks, t.result, c)
        /\ live' = IF c.kind = "Text" THEN live \cup {t.path} ELSE live
        /\ unwatched' = IF c.kind = "Text" THEN unwatched \ {t.path}
                                           ELSE unwatched

\* the untracked arm with a slip: the entry is inserted, the result is not
\* set
WatchNewLate(t, fail) ==
    LET r == init(t.opaque, t.tp, t.path, fail)
    IN  /\ tasks' = IF r.w # <<>> THEN (t.path :> r.w[1]) @@ tasks ELSE tasks
        /\ sinks' = IF r.w # <<>> THEN sinks ELSE OneSet(sinks, t.result, r.c)
        /\ live' = IF r.c.kind = "Text" THEN live \cup {t.path} ELSE live
        /\ unwatched' = IF r.c.kind = "Text" THEN unwatched \ {t.path}
                                             ELSE unwatched

\* ---- FileWatcherInner::task, arm Watch on an untracked path ----
WatchNew(t, fail) ==
    LET r == init(t.opaque, t.tp, t.path, fail)
    IN  /\ tasks' = IF r.w # <<>> THEN (t.path :> r.w[1]) @@ tasks ELSE tasks
        /\ sinks' = OneSet(sinks, t.result, r.c)
        /\ live' = IF r.c.kind = "Text" THEN live \cup {t.path} ELSE live
        /\ unwatched' = IF r.c.kind = "Text" THEN unwatched \ {t.path}
                                             ELSE unwatched

\* Unwatch with a slip: the entry is left in the table
UnwatchKeep(t) ==
    /\ tasks' = tasks
    /\ sinks' = sinks
    /\ live' = live \ {t.path}
    /\ unwatched' = unwatched \cup {t.path}

\* Unwatch per subscriber: the last token is popped, the entry goes with it
\* only when it was the only one
UnwatchOne(t) ==
    /\ tasks' = IF t.path \in DOMAIN tasks /\ Len(tasks[t.path].opaque) > 1
                  THEN [tasks EXCEPT ![t.path].opaque =
                                        SubSeq(@, 1, Len(@) - 1)]
                  ELSE [q \in DOMAIN tasks \ {t.path} |-> tasks[q]]
    /\ sinks' = sinks
    /\ live' = live \ {t.path}
    /\ unwatched' = unwatched \cup {t.path}

\* ---- FileWatcherInner::task, arm Unwatch ----
Unwatch(t) ==
    /\ tasks' = [q \in DOMAIN tasks \ {t.path} |-> tasks[q]]
    /\ sinks' = sinks
    /\ live' = live \ {t.path}
    /\ unwatched' = unwatched \cup {t.path}

\* ---- FileWatcherInner::task ----
task(t) ==
    /\ \E fail \in BOOLEAN :
         /\ fail => (t.kind = "Watch" /\ OpenOk(t.path))
         /\ ops' = ops
         /\ rdfail' = IF fail THEN {t.path} ELSE {}
         /\ IF t.kind = "Watch"
              THEN IF t.path \in DOMAIN tasks
                     THEN WatchTracked(t, fail)
                     ELSE WatchNew(t, fail)
              ELSE Unwatch(t)
    /\ emitted' = <<>>
    /\ events' = events
    /\ regs' = [p \in Paths |->
                  IF p \notin DOMAIN tasks' THEN <<>>
                  ELSE IF /\ t.kind = "Watch" /\ p = t.path
                          /\ Len(tasks'[p].opaque) > Len(regs[p])
                         THEN Append(regs[p], t.result)
                         ELSE regs[p]]
    /\ failedAt' = IF t.kind = "Unwatch"
                     THEN [failedAt EXCEPT ![t.path] = -1]
                     ELSE failedAt

\* the comparison of check with a slip: >= for >
ChangedGe(p) == StatOk(p) /\ fs[p].mtime >= tasks[p].modified

\* the comparison with a slip: any difference counts as a change
ChangedNe(p) == StatOk(p) /\ fs[p].mtime # tasks[p].modified

\* ---- FileWatcherInner::check ----
\* the paths whose file is opened and read by this pass
Changed(p) == StatOk(p) /\ fs[p].mtime > tasks[p].modified
WillRead   == {p \in DOMAIN tasks : Changed(p) /\ OpenOk(p)}
\* to_remove with a slip: an open failure is skipped like an unchanged file
ToRemoveStatOnly == {p \in DOMAIN tasks : ~StatOk(p)}
\* to_remove with a slip: a stat failure is skipped like an unchanged file
ToRemoveOpenOnly == {p \in DOMAIN tasks : Changed(p) /\ ~OpenOk(p)}
\* to_remove
ToRemove   == {p \in DOMAIN tasks : ~StatOk(p) \/ (Changed(p) /\ ~OpenOk(p))}

\* the broadcast with a slip: only the first subscriber is notified
BroadcastFirst(p, c) ==
    [i \in 1..1 |->
        [path |-> p, opaque |-> tasks[p].opaque[i], content |-> c]]

\* the events of one entry: one per subscriber, in subscriber order
Broadcast(p, c) ==
    [i \in 1..Len(tasks[p].opaque) |->
        [path |-> p, opaque |-> tasks[p].opaque[i], content |-> c]]

\* the scan with a slip: a failed read sends nothing
RECURSIVE ScanQuiet(_, _)
ScanQuiet(i, F) ==
    IF i > Len(PathSeq) THEN <<>>
    ELSE LET p == PathSeq[i]
         IN  (IF p \in WillRead \ F
                THEN Broadcast(p, read_to_string(p, FALSE))
                ELSE <<>>) \o ScanQuiet(i + 1, F)

\* the events of the pass over PathSeq[i..], F the reads that fail
RECURSIVE Scan(_, _)
Scan(i, F) ==
    IF i > Len(PathSeq) THEN <<>>
    ELSE LET p == PathSeq[i]
         IN  (IF p \in WillRead
                THEN Broadcast(p, read_to_string(p, p \in F))
                ELSE <<>>) \o Scan(i + 1, F)

FileEvent(e) == [opaque |-> e.opaque, content |-> e.content]

\* check with a slip: the stored time is advanced though the read failed
checkAdvance ==
    \E F \in SUBSET WillRead :
      /\ ops + Cardinality(F) <= MaxOps
      /\ ops' = ops + Cardinality(F)
      /\ rdfail' = F
      /\ LET sent == Scan(1, F)
         IN  /\ emitted' = sent
             /\ events' = events \o [i \in 1..Len(sent) |-> FileEvent(sent[i])]
             /\ hist' = [p \in Paths |->
                           IF hist[p] = "added"
                              /\ \E i \in 1..Len(sent) : sent[i].path = p
                             THEN "updated" ELSE hist[p]]
      /\ tasks' = [p \in DOMAIN tasks \ ToRemove |->
                     IF p \in WillRead
                       THEN [tasks[p] EXCEPT !.modified = fs[p].mtime]
                       ELSE tasks[p]]
      /\ live' = live \ {p \in live : ~StatOk(p) \/ (Changed(p) /\ ~OpenOk(p))}
      /\ regs' = [p \in Paths |->
                    IF p \in DOMAIN tasks' THEN regs[p] ELSE <<>>]
      /\ failedAt' = [p \in Paths |-> IF p \in F THEN fs[p].mtime ELSE -1]
      /\ UNCHANGED <<sinks, unwatched>>

\* the poll pass
check ==
    \E F \in SUBSET WillRead :
      /\ ops + Cardinality(F) <= MaxOps
      /\ ops' = ops + Cardinality(F)
      /\ rdfail' = F
      /\ LET sent == Scan(1, F)
         IN  /\ emitted' = sent
             /\ events' = events \o [i \in 1..Len(sent) |-> FileEvent(sent[i])]
             /\ hist' = [p \in Paths |->
                           IF hist[p] = "added"
                              /\ \E i \in 1..Len(sent) : sent[i].path = p
                             THEN "updated" ELSE hist[p]]
      /\ tasks' = [p \in DOMAIN tasks \ ToRemove |->
                     IF p \in WillRead \ F
                       THEN [tasks[p] EXCEPT !.modified = fs[p].mtime]
                       ELSE tasks[p]]
      /\ live' = live \ {p \in live : ~StatOk(p) \/ (Changed(p) /\ ~OpenOk(p))}
      /\ regs' = [p \in Paths |->
                    IF p \in DOMAIN tasks' THEN regs[p] ELSE <<>>]
      /\ failedAt' = [p \in Paths |-> IF p \in F THEN fs[p].mtime ELSE -1]
      /\ UNCHANGED <<sinks, unwatched>>

\* ---- worker loop of FileWatcher::new ----
\* irx.recv_timeout(inner.timeout) returning Ok(task)
RecvTask ==
    /\ pc = "recv" /\ cmdq # <<>>
    /\ task(Head(cmdq))
    /\ cmdq' = Tail(cmdq)
    /\ pc' = "drain"
    /\ UNCHANGED <<fs, sender, handle, nreq, hist>>

\* Timeout with a slip: a closed channel still times out
RecvTimeoutAlways ==
    /\ pc = "recv" /\ cmdq = <<>>
    /\ pc' = "check"
    /\ UNCHANGED <<fs, ops, sender, handle, cmdq, events, sinks,
                   nreq, tasks, emitted, live, rdfail, hist, unwatched, regs, failedAt>>

\* irx.recv_timeout(inner.timeout) returning Err(Timeout)
RecvTimeout ==
    /\ pc = "recv" /\ cmdq = <<>> /\ sender
    /\ pc' = "check"
    /\ UNCHANGED <<fs, ops, sender, handle, cmdq, events, sinks,
                   nreq, tasks, emitted, live, rdfail, hist, unwatched, regs, failedAt>>

\* Disconnected with a slip: closure is seen before the queue is empty
RecvDisconnectedEarly ==
    /\ pc = "recv" /\ ~sender
    /\ pc' = "done"
    /\ UNCHANGED <<fs, ops, sender, handle, cmdq, events, sinks,
                   nreq, tasks, emitted, live, rdfail, hist, unwatched, regs, failedAt>>

\* irx.recv_timeout(inner.timeout) returning Err(Disconnected)
RecvDisconnected ==
    /\ pc = "recv" /\ cmdq = <<>> /\ ~sender
    /\ pc' = "done"
    /\ UNCHANGED <<fs, ops, sender, handle, cmdq, events, sinks,
                   nreq, tasks, emitted, live, rdfail, hist, unwatched, regs, failedAt>>

\* while let Ok(task) = irx.try_recv() { inner.task(task) }
DrainTask ==
    /\ pc = "drain" /\ cmdq # <<>>
    /\ task(Head(cmdq))
    /\ cmdq' = Tail(cmdq)
    /\ pc' = "drain"
    /\ UNCHANGED <<fs, sender, handle, nreq, hist>>

\* the end of the drain with a slip: a closed channel ends the loop here
DrainEndExit ==
    /\ pc = "drain" /\ cmdq = <<>>
    /\ pc' = IF sender THEN "check" ELSE "done"
    /\ UNCHANGED <<fs, ops, sender, handle, cmdq, events, sinks,
                   nreq, tasks, emitted, live, rdfail, hist, unwatched, regs, failedAt>>

\* the end of the drain with a slip: the drain stops after one command
DrainEndEarly ==
    /\ pc = "drain"
    /\ pc' = "check"
    /\ UNCHANGED <<fs, ops, sender, handle, cmdq, events, sinks,
                   nreq, tasks, emitted, live, rdfail, hist, unwatched, regs, failedAt>>

\* irx.try_recv() returning Err: the drain ends
DrainEnd ==
    /\ pc = "drain" /\ cmdq = <<>>
    /\ pc' = "check"
    /\ UNCHANGED <<fs, ops, sender, handle, cmdq, events, sinks,
                   nreq, tasks, emitted, live, rdfail, hist, unwatched, regs, failedAt>>

\* inner.check()
Poll ==
    /\ pc = "check"
    /\ check
    /\ pc' = "recv"
    /\ UNCHANGED <<fs, sender, handle, cmdq, nreq>>

Worker == RecvTask \/ RecvTimeout \/ RecvDisconnected \/ DrainTask
          \/ DrainEnd \/ Poll

\* ---- FileWatcher (the handle) ----
add_watch(tp, path, opaque) ==
    /\ handle = "alive" /\ ops < MaxOps
    /\ ops' = ops + 1
    /\ nreq' = nreq + 1
    /\ cmdq' = IF sender THEN Append(cmdq, WatchCmd(opaque, tp, path, nreq + 1))
                         ELSE cmdq
    /\ hist' = [hist EXCEPT ![path] = "added"]
    /\ UNCHANGED <<fs, sender, handle, events, sinks, tasks, pc, emitted,
                   live, rdfail, unwatched, regs, failedAt>>

remove_watch(path) ==
    /\ handle = "alive" /\ ops < MaxOps
    /\ ops' = ops + 1
    /\ cmdq' = IF sender THEN Append(cmdq, UnwatchCmd(path)) ELSE cmdq
    /\ hist' = [hist EXCEPT ![path] = IF @ = "added" THEN "removed" ELSE @]
    /\ UNCHANGED <<fs, sender, handle, events, sinks, nreq, tasks, pc,
                   emitted, live, rdfail, unwatched, regs, failedAt>>

\* try_recv returning Ok(event); Empty and Closed change nothing
try_recv ==
    /\ handle = "alive" /\ events # <<>>
    /\ events' = Tail(events)
    /\ UNCHANGED <<fs, ops, sender, handle, cmdq, sinks, nreq, tasks, pc,
                   emitted, live, rdfail, hist, unwatched, regs, failedAt>>

\* Drop::drop up to handle.join(): the command sender is dropped
DropSender ==
    /\ handle = "alive"
    /\ sender' = FALSE
    /\ handle' = "dropping"
    /\ UNCHANGED <<fs, ops, cmdq, events, sinks, nreq, tasks, pc, emitted,
                   live, rdfail, hist, unwatched, regs, failedAt>>

\* handle.join() returns once the worker thread has finished
Join ==
    /\ handle = "dropping" /\ pc = "done"
    /\ handle' = "joined"
    /\ UNCHANGED <<fs, ops, sender, cmdq, events, sinks, nreq, tasks, pc,
                   emitted, live, rdfail, hist, unwatched, regs, failedAt>>

\* ---- the environment: the file system changes ----
FsWrite(p, m, c) ==
    /\ ops < MaxOps
    /\ fs[p] # [st |-> "ok", mtime |-> m, content |-> c]
    /\ fs' = [fs EXCEPT ![p] = [st |-> "ok", mtime |-> m, content |-> c]]
    /\ ops' = ops + 1
    /\ UNCHANGED <<sender, handle, cmdq, events, sinks, nreq, tasks, pc,
                   emitted, live, rdfail, hist, unwatched, regs, failedAt>>

FsRemove(p) ==
    /\ ops < MaxOps
    /\ fs[p].st # "absent"
    /\ fs' = [fs EXCEPT ![p] = [st |-> "absent", mtime |-> 0, content |-> "x"]]
    /\ ops' = ops + 1
    /\ UNCHANGED <<sender, handle, cmdq, events, sinks, nreq, tasks, pc,
                   emitted, live, rdfail, hist, unwatched, regs, failedAt>>

\* the file becomes one that stat finds (modified at m) and open refuses:
\* replaced by a file without read permission, or removed between the
\* stat and the open of one pass
FsLock(p, m) ==
    /\ ops < MaxOps
    /\ fs[p] # [st |-> "locked", mtime |-> m, content |-> "x"]
    /\ fs' = [fs EXCEPT ![p] = [st |-> "locked", mtime |-> m, content |-> "x"]]
    /\ ops' = ops + 1
    /\ UNCHANGED <<sender, handle, cmdq, events, sinks, nreq, tasks, pc,
                   emitted, live, rdfail, hist, unwatched, regs, failedAt>>

Init ==
    /\ fs = [p \in Paths |-> [st |-> "ok", mtime |-> 1, content |-> "x"]]
    /\ ops = 0
    /\ sender = TRUE
    /\ handle = "alive"
    /\ cmdq = <<>>
    /\ events = <<>>
    /\ sinks = [r \in 1..MaxOps |-> <<>>]
    /\ nreq = 0
    /\ tasks = <<>>
    /\ pc = "recv"
    /\ emitted = <<>>
    /\ live = {}
    /\ rdfail = {}
    /\ hist = [p \in Paths |-> "none"]
    /\ unwatched = {}
    /\ regs = [p \in Paths |-> <<>>]
    /\ failedAt = [p \in Paths |-> -1]

Next ==
    \/ Worker
    \/ \E p \in Paths, o \in Tokens : add_watch("Text", p, o)
    \/ \E p \in Paths : remove_watch(p)
    \/ try_recv
    \/ DropSender
    \/ Join
    \/ \E p \in Paths, m \in 0..MaxTime, c \in Contents : FsWrite(p, m, c)
    \/ \E p \in Paths : FsRemove(p)
    \/ \E p \in Paths, m \in 0..MaxTime : FsLock(p, m)

Spec == Init /\ [][Next]_vars

\* the worker thread is scheduled fairly and file operations terminate
FairSpec == Spec /\ WF_vars(Worker)

\* and handle.join() returns once the worker thread has finished
DropSpec == Spec /\ WF_vars(Worker) /\ WF_vars(Join)

\* ======================================================================
\* Properties
\* ======================================================================

\* the worker takes the head of the command channel and runs task on it
TaskStep  == cmdq # <<>> /\ cmdq' = Tail(cmdq)
WatchStep == TaskStep /\ Head(cmdq).kind = "Watch"
UnwatchStep == TaskStep /\ Head(cmdq).kind = "Unwatch"
\* the worker runs one poll pass
PollStep  == pc = "check" /\ pc' = "recv"

\* the events of seq that are about path p
EventsOf(seq, p) == SelectSeq(seq, LAMBDA e : e.path = p)
\* the events of seq that are about path p and carry token o
EventsTo(seq, p, o) == SelectSeq(seq, LAMBDA e : e.path = p /\ e.opaque = o)
\* what the event channel carries of a sent event
Wire(seq) == [i \in 1..Len(seq) |->
                [opaque |-> seq[i].opaque, content |-> seq[i].content]]
\* the requests still in the command channel
Queued == {cmdq[i].result : i \in 1..Len(cmdq)}
\* how often token o is listed in the entry of p
Listed(p, o) ==
    Cardinality({i \in 1..Len(tasks[p].opaque) : tasks[p].opaque[i] = o})
\* the file of a tracked path is gone for a poll pass: stat fails, or open
\* fails after a newer timestamp was seen
Gone(p) == fs[p].st = "absent"
           \/ (fs[p].st = "locked" /\ fs[p].mtime > tasks[p].modified)
\* a poll pass finds the file of a tracked path newer and can open it
Newer(p) == fs[p].st = "ok" /\ fs[p].mtime > tasks[p].modified

\* ---- C1 ----
\* C1: every Watch command the engine processes sets the sink of its request
\* exactly once, in the step that processes it (tracked or new path, read
\* succeeding or failing): a sink holds one value exactly when its request
\* was issued and has left the command channel, a Watch step fills the sink
\* of its request and no other, and no other step (a poll pass, an Unwatch)
\* changes any sink.
C1_SinkSetOnceByTask ==
    /\ [](\A r \in 1..MaxOps :
            Len(sinks[r]) = IF r <= nreq /\ r \notin Queued THEN 1 ELSE 0)
    /\ [][IF WatchStep
            THEN LET r == Head(cmdq).result
                 IN  /\ sinks[r] = <<>>
                     /\ Len(sinks'[r]) = 1
                     /\ \A q \in 1..MaxOps \ {r} : sinks'[q] = sinks[q]
            ELSE sinks' = sinks]_vars

\* a request on a tracked path got an Error, a request on a new path got the
\* content, and a poll pass has run since
C1_Witness ==
    /\ \E r \in 1..MaxOps : sinks[r] = <<Error>>
    /\ \E r \in 1..MaxOps : Len(sinks[r]) = 1 /\ sinks[r][1].kind = "Text"
    /\ \E p \in DOMAIN tasks : Len(tasks[p].opaque) = 2
    /\ pc = "recv"

\* ---- C2 ----
\* C2: under fair scheduling of the worker, every add_watch call made while
\* the handle is alive eventually has its sink resolved, also when the
\* handle is dropped right after the call: whenever the sink of a call made
\* is still empty, a state follows in which the sinks of all calls made
\* hold a result.
C2_EveryWatchResolved ==
    (\E r \in 1..MaxOps : nreq >= r /\ sinks[r] = <<>>)
       ~> (\A r \in 1..MaxOps : nreq >= r => sinks[r] # <<>>)

\* the handle was dropped and joined and every request made was resolved
C2_Witness ==
    /\ handle = "joined"
    /\ nreq = 2
    /\ Len(sinks[1]) = 1 /\ Len(sinks[2]) = 1

\* ---- C3 ----
\* C3: in every reachable state the paths of the watch table are exactly the
\* paths registered successfully and since then neither removed by a
\* processed Unwatch nor evicted by a poll pass on a stat or open failure.
C3_TableIsLive == DOMAIN tasks = live

\* two paths were registered and one of them was then evicted by a poll
\* pass (the three operations were two add_watch and the removal of a
\* file: no Unwatch was issued), the other one is still tracked
C3_Witness ==
    /\ ops = 3 /\ nreq = 2
    /\ \E p \in Paths : fs[p].st = "absent"
    /\ sinks[1] # <<>> /\ sinks[1][1].kind = "Text"
    /\ sinks[2] # <<>> /\ sinks[2][1].kind = "Text"
    /\ Cardinality(DOMAIN tasks) = 1
    /\ \A p \in DOMAIN tasks : Len(tasks[p].opaque) = 1

\* ---- C4 ----
\* C4: a Watch on a tracked path fills its own sink, and a poll pass that
\* reads a changed file successfully puts into the event channel, for that
\* path, exactly one event per entry of the subscriber list, in list order,
\* each carrying the content of the file.
C4_FanOut ==
    [][/\ (WatchStep /\ Head(cmdq).path \in DOMAIN tasks) =>
             /\ sinks[Head(cmdq).result] = <<>>
             /\ Len(sinks'[Head(cmdq).result]) = 1
       /\ PollStep =>
             /\ events' = events \o Wire(emitted')
             /\ \A p \in DOMAIN tasks :
                  (Newer(p) /\ p \notin rdfail') =>
                     LET ev == EventsOf(emitted', p)
                     IN  /\ Len(ev) = Len(tasks[p].opaque)
                         /\ \A i \in 1..Len(ev) :
                              /\ ev[i].opaque = tasks[p].opaque[i]
                              /\ ev[i].content = Text(fs[p].content)]_vars

\* two tokens on one path, one change: two update events, same content
C4_Witness ==
    /\ Len(emitted) = 2
    /\ emitted[1].path = emitted[2].path
    /\ emitted[1].opaque # emitted[2].opaque
    /\ emitted[1].content = emitted[2].content
    /\ emitted[1].content.kind = "Text"
    /\ Len(sinks[1]) = 1 /\ Len(sinks[2]) = 1

\* ---- C5 ----
\* C5: a Watch for a path without entry whose stat, open or read fails sets
\* its sink to a single Error, leaves the table as it was (no entry for the
\* path, the others unchanged) and puts nothing into the event channel.
C5_FailedNewWatch ==
    [][(/\ WatchStep
        /\ Head(cmdq).path \notin DOMAIN tasks
        /\ \/ fs[Head(cmdq).path].st # "ok"
           \/ Head(cmdq).path \in rdfail') =>
           /\ sinks'[Head(cmdq).result] = <<Error>>
           /\ tasks' = tasks
           /\ events' = events
           /\ emitted' = <<>>]_vars

\* the read of a new path failed: Error in the sink, no entry
C5_Witness ==
    /\ rdfail = {"a"}
    /\ nreq = 1
    /\ sinks[1] = <<Error>>
    /\ "a" \notin DOMAIN tasks
    /\ events = <<>>

\* ---- C6 ----
\* C6: a poll pass that finds the file of a tracked path gone (stat fails,
\* or open fails after a newer timestamp) emits no event for the path and
\* ends with the path out of the table; an Unwatch processed for a path
\* without entry changes nothing and emits nothing.
C6_DeletedFileEvicted ==
    [][/\ PollStep =>
             \A p \in DOMAIN tasks :
                Gone(p) => /\ EventsOf(emitted', p) = <<>>
                           /\ p \notin DOMAIN tasks'
       /\ (UnwatchStep /\ Head(cmdq).path \notin DOMAIN tasks) =>
             /\ tasks' = tasks
             /\ events' = events
             /\ sinks' = sinks
             /\ emitted' = <<>>]_vars

\* "a" was registered, its file deleted, the entry evicted by a poll pass
\* (the only Unwatch issued is still in the command channel)
C6_Witness ==
    /\ nreq = 1 /\ ops = 3
    /\ cmdq = <<UnwatchCmd("a")>>
    /\ sinks[1] = <<Text("x")>>
    /\ fs["a"].st = "absent"
    /\ "a" \notin DOMAIN tasks
    /\ events = <<>> /\ emitted = <<>>

\* ---- C7 ----
\* C7 as stated: once remove_watch(p) was called after add_watch(p) with no
\* event for p sent in between, no poll pass ever puts an event for p into
\* the event channel (until add_watch(p) is called again).
C7_Original ==
    [][PollStep =>
          \A p \in Paths :
             hist[p] = "removed" => EventsOf(emitted', p) = <<>>]_vars

\* C7 as amended: once the engine has processed the Unwatch of p, no event
\* for p is put into the event channel until a Watch of p succeeds again;
\* only a poll pass puts events into the channel.
C7_NoEventOnceUnwatchProcessed ==
    [][/\ PollStep =>
             /\ events' = events \o Wire(emitted')
             /\ \A p \in unwatched : EventsOf(emitted', p) = <<>>
       /\ ~PollStep => (events' = events \/ events' = Tail(events))]_vars

\* add_watch("a"), remove_watch("a") before any event, the Unwatch was
\* processed, the file has changed since the registration, a pass has run
C7_Witness ==
    /\ hist["a"] = "removed"
    /\ "a" \in unwatched
    /\ sinks[1] = <<Text("x")>>
    /\ fs["a"].st = "ok" /\ fs["a"].mtime = MaxTime
    /\ pc = "recv" /\ cmdq = <<>>
    /\ emitted = <<>> /\ events = <<>>

\* ---- C8 ----
\* C8: processing Unwatch(p) leaves the table without p, whatever the
\* number of subscribers of p, and with every other entry unchanged; it
\* puts no event into the event channel and sets no sink.
C8_UnwatchFrame ==
    [][UnwatchStep =>
          /\ DOMAIN tasks' = DOMAIN tasks \ {Head(cmdq).path}
          /\ \A q \in DOMAIN tasks' : tasks'[q] = tasks[q]
          /\ events' = events
          /\ sinks' = sinks
          /\ emitted' = <<>>]_vars

\* two registrations succeeded, the third operation was a remove_watch (no
\* file ever changed) and its Unwatch emptied the table: the entry it
\* removed held both subscribers
C8_Witness ==
    /\ ops = 3 /\ nreq = 2 /\ cmdq = <<>>
    /\ sinks[1] # <<>> /\ sinks[1][1].kind = "Text"
    /\ sinks[2] # <<>> /\ sinks[2][1].kind = "Text"
    /\ DOMAIN tasks = {}
    /\ unwatched # {}

\* ---- C9 ----
\* C9 as stated: a token is recorded at most once in the subscriber list of
\* a path, and a poll pass sends it at most one event for the path.
C9_Original ==
    /\ \A p \in DOMAIN tasks : \A o \in Tokens : Listed(p, o) <= 1
    /\ \A p \in Paths : \A o \in Tokens : Len(EventsTo(emitted, p, o)) <= 1

\* C9 as amended: registering a (token, path) pair again fills the sink of
\* the second request too and keeps one entry for the path, but appends the
\* token once more to its subscriber list; a poll pass that reads the
\* changed file sends the token one event per time it is listed.
C9_DoubleRegistration ==
    [][/\ (/\ WatchStep
           /\ Head(cmdq).path \in DOMAIN tasks
           /\ Listed(Head(cmdq).path, Head(cmdq).opaque) >= 1) =>
             /\ DOMAIN tasks' = DOMAIN tasks
             /\ tasks'[Head(cmdq).path].opaque =
                   Append(tasks[Head(cmdq).path].opaque, Head(cmdq).opaque)
             /\ sinks[Head(cmdq).result] = <<>>
             /\ Len(sinks'[Head(cmdq).result]) = 1
       /\ PollStep =>
             \A p \in DOMAIN tasks : \A o \in Tokens :
                Newer(p) => Len(EventsTo(emitted', p, o)) = Listed(p, o)]_vars

\* the same pair registered twice, both sinks filled, one change: two events
\* for the token
C9_Witness ==
    /\ "a" \in DOMAIN tasks
    /\ tasks["a"].opaque = <<"t1", "t1">>
    /\ Len(sinks[1]) = 1 /\ Len(sinks[2]) = 1
    /\ Len(EventsTo(emitted, "a", "t1")) = 2

\* ---- C10 ----
\* C10: for a tracked path with one subscriber, a poll pass that finds the
\* modification time strictly greater than the stored one and reads the
\* file sends exactly one event, with the new content, and stores the time
\* it saw; a pass that finds the time not strictly greater sends nothing
\* for the path and leaves the entry as it was.  So one change gives one
\* event over all the passes that follow.
C10_OneChangeOneEvent ==
    [][PollStep =>
          \A p \in DOMAIN tasks :
             Len(tasks[p].opaque) = 1 =>
                /\ (Newer(p) /\ p \notin rdfail') =>
                      /\ EventsOf(emitted', p) =
                            <<[path |-> p, opaque |-> tasks[p].opaque[1],
                               content |-> Text(fs[p].content)]>>
                      /\ p \in DOMAIN tasks'
                      /\ tasks'[p].modified = fs[p].mtime
                      /\ tasks'[p].opaque = tasks[p].opaque
                /\ (fs[p].st # "absent"
                    /\ fs[p].mtime <= tasks[p].modified) =>
                      /\ EventsOf(emitted', p) = <<>>
                      /\ p \in DOMAIN tasks'
                      /\ tasks'[p] = tasks[p]]_vars

\* the one update event of the change is in the channel, the stored time is
\* the file's, and the last pass (a later one) sent nothing
C10_Witness ==
    /\ "a" \in DOMAIN tasks
    /\ Len(tasks["a"].opaque) = 1
    /\ fs["a"] = [st |-> "ok", mtime |-> MaxTime, content |-> "y"]
    /\ tasks["a"].modified = MaxTime
    /\ events = <<[opaque |-> tasks["a"].opaque[1], content |-> Text("y")]>>
    /\ emitted = <<>>
    /\ pc = "recv"

\* ---- C11 ----
\* C11: the result of a Watch request is in its sink before any event is
\* sent on behalf of the registration it made: every element of a
\* subscriber list was put there by a request whose sink is filled, and a
\* poll pass sends events only for such elements.  The event channel is
\* first in, first out: a step leaves it alone, takes its head, or (a poll
\* pass) appends the events it sent, in the order it sent them.
C11_ResultBeforeEvents ==
    /\ [](\A p \in DOMAIN tasks :
            /\ Len(regs[p]) = Len(tasks[p].opaque)
            /\ \A i \in 1..Len(regs[p]) : sinks[regs[p][i]] # <<>>)
    /\ [][/\ PollStep =>
                \A p \in Paths :
                   LET ev == EventsOf(emitted', p)
                   IN  ev # <<>> =>
                          /\ p \in DOMAIN tasks
                          /\ Len(ev) = Len(regs[p])
                          /\ \A i \in 1..Len(ev) :
                               /\ ev[i].opaque = tasks[p].opaque[i]
                               /\ sinks[regs[p][i]] # <<>>
          /\ \/ events' = events
             \/ events # <<>> /\ events' = Tail(events)
             \/ PollStep /\ events' = events \o Wire(emitted')]_vars

\* two registrations of one path, both results delivered, one change: the
\* pass sent t1's event and then t2's; t1's has left the channel, t2's is
\* its head
C11_Witness ==
    /\ Len(emitted) = 2
    /\ emitted[1].path = emitted[2].path
    /\ emitted[1].opaque = "t1" /\ emitted[2].opaque = "t2"
    /\ events = Wire(<<emitted[2]>>)
    /\ Len(sinks[1]) = 1 /\ Len(sinks[2]) = 1

\* ---- C12 ----
\* C12: dropping the handle terminates: once the command sender is dropped,
\* the worker (scheduled fairly) sees the command channel closed and empty
\* and leaves its loop, and the join returns, whatever commands and events
\* are pending.
C12_DropTerminates == (handle = "dropping") ~> (handle = "joined")

\* the drop has returned with a request resolved and events left unread
C12_Witness ==
    /\ handle = "joined"
    /\ pc = "done"
    /\ events # <<>>
    /\ Len(sinks[1]) = 1

\* ---- C13 ----
\* C13: a poll pass that opens a changed file and fails to read it sends
\* one Error event per element of the subscriber list, in list order, and
\* leaves the entry in the table as it was (stored time, subscribers).
C13_ReadFailureBroadcast ==
    [][PollStep =>
          \A p \in DOMAIN tasks :
             p \in rdfail' =>
                /\ Newer(p)
                /\ EventsOf(emitted', p) =
                      [i \in 1..Len(tasks[p].opaque) |->
                         [path |-> p, opaque |-> tasks[p].opaque[i],
                          content |-> Error]]
                /\ p \in DOMAIN tasks'
                /\ tasks'[p] = tasks[p]]_vars

\* the read of the changed file of "a" failed in the last pass: the Error
\* event is in the channel, the entry still holds the older time
C13_Witness ==
    /\ rdfail = {"a"}
    /\ "a" \in DOMAIN tasks
    /\ emitted = <<[path |-> "a", opaque |-> tasks["a"].opaque[1],
                    content |-> Error]>>
    /\ events = Wire(emitted)
    /\ tasks["a"].modified < fs["a"].mtime

C15_WaitDrainPoll ==
    [][/\ pc' # pc =>
             \/ pc = "recv"  /\ pc' = "drain" /\ TaskStep
             \/ pc = "recv"  /\ pc' = "check" /\ cmdq = <<>>
             \/ pc = "recv"  /\ pc' = "done"  /\ cmdq = <<>> /\ ~sender
             \/ pc = "drain" /\ pc' = "check"
             \/ pc = "check" /\ pc' = "recv"
       /\ Len(events') > Len(events) => PollStep
       /\ pc = "done" => /\ pc' = "done"
                         /\ tasks' = tasks
                         /\ \/ events' = events
                            \/ events # <<>> /\ events' = Tail(events)
                         /\ cmdq' = cmdq /\ sinks' = sinks]_vars

\* the sender was dropped while a change was pending: the worker finished
\* the cycle with a poll pass that sent the event, and left from the wait
C15_Witness ==
    /\ pc = "done" /\ handle = "dropping"
    /\ cmdq = <<>>
    /\ emitted # <<>>
    /\ events = Wire(emitted)

\* ---- C16 ----
\* C16: callers append commands at the tail of the queue at any time; the
\* worker takes the head only, in the wait or the drain, and applies that
\* one command to the table; a poll pass is entered only with the queue
\* found empty, so what was queued when the drain began has been applied;
\* the table changes in task steps and poll passes only.
C16_CommandsBeforePoll ==
    [][/\ (pc # "check" /\ pc' = "check") =>
             /\ cmdq = <<>>
             /\ pc \in {"recv", "drain"}
       /\ cmdq' # cmdq =>
             \/ /\ Len(cmdq') = Len(cmdq) + 1
                /\ SubSeq(cmdq', 1, Len(cmdq)) = cmdq
                /\ pc' = pc /\ tasks' = tasks
             \/ /\ TaskStep
                /\ pc \in {"recv", "drain"} /\ pc' = "drain"
                /\ LET t == Head(cmdq)
                   IN  /\ \A q \in Paths \ {t.path} :
                            /\ q \in DOMAIN tasks' <=> q \in DOMAIN tasks
                            /\ q \in DOMAIN tasks => tasks'[q] = tasks[q]
                       /\ t.kind = "Watch" => sinks'[t.result] # <<>>
                       /\ t.kind = "Unwatch" => t.path \notin DOMAIN tasks'
       /\ tasks' # tasks => TaskStep \/ PollStep]_vars

\* three commands were queued; the first has been applied and the drain
\* is under way with the other two still queued, no poll pass in between
C16_Witness ==
    /\ pc = "drain"
    /\ nreq = 3
    /\ Len(cmdq) = 2
    /\ sinks[1] # <<>>
    /\ sinks[2] = <<>> /\ sinks[3] = <<>>

\* ---- C17 ----
\* C17: a Watch for a path that has an entry appends the token at the end
\* of the entry's subscriber list and sets the sink of the request to the
\* outcome of a read of the file as it is now; the entry's stored time and
\* type, the other entries, the other sinks, the file system and the event
\* channel stay as they were.
C17_TrackedWatchFrame ==
    [][(WatchStep /\ Head(cmdq).path \in DOMAIN tasks) =>
          LET t == Head(cmdq)
              p == t.path
          IN  /\ DOMAIN tasks' = DOMAIN tasks
              /\ tasks'[p].opaque = Append(tasks[p].opaque, t.opaque)
              /\ tasks'[p].modified = tasks[p].modified
              /\ tasks'[p].tp = tasks[p].tp
              /\ \A q \in DOMAIN tasks \ {p} : tasks'[q] = tasks[q]
              /\ sinks[t.result] = <<>>
              /\ sinks'[t.result] =
                    <<IF fs[p].st = "ok" /\ p \notin rdfail'
                        THEN Text(fs[p].content) ELSE Error>>
              /\ \A r \in DOMAIN sinks \ {t.result} : sinks'[r] = sinks[r]
              /\ events' = events
              /\ fs' = fs]_vars

\* the file changed, then a second token joined: it is listed last, its
\* sink holds the new content, the stored time is still the old one and
\* nothing has been sent
C17_Witness ==
    /\ "a" \in DOMAIN tasks
    /\ tasks["a"].opaque = <<"t1", "t2">>
    /\ fs["a"].mtime > tasks["a"].modified
    /\ sinks[1] = <<Text("x")>>
    /\ sinks[2] = <<Text("y")>>
    /\ events = <<>>
    /\ pc = "drain"

\* ---- C18 ----
\* C18: a Watch for a path that has an entry appends the token also when
\* the open or the read fails and the sink gets an Error; a Watch for a
\* path without an entry whose sink gets an Error leaves the path without
\* an entry; a poll pass that reads a changed file sends its event also to
\* the list elements whose registration result was an Error.
C18_ErrorStillSubscribed ==
    [][/\ (/\ WatchStep
           /\ Head(cmdq).path \in DOMAIN tasks
           /\ \/ fs[Head(cmdq).path].st # "ok"
              \/ Head(cmdq).path \in rdfail') =>
             /\ sinks'[Head(cmdq).result] = <<Error>>
             /\ Head(cmdq).path \in DOMAIN tasks'
             /\ tasks'[Head(cmdq).path].opaque =
                   Append(tasks[Head(cmdq).path].opaque, Head(cmdq).opaque)
       /\ (/\ WatchStep
           /\ Head(cmdq).path \notin DOMAIN tasks
           /\ sinks'[Head(cmdq).result] = <<Error>>) =>
             Head(cmdq).path \notin DOMAIN tasks'
       /\ PollStep =>
             \A p \in DOMAIN tasks :
                Newer(p) =>
                   \A i \in 1..Len(regs[p]) :
                      sinks[regs[p][i]] = <<Error>> =>
                         LET ev == EventsOf(emitted', p)
                         IN  /\ i <= Len(ev)
                             /\ ev[i].opaque = tasks[p].opaque[i]
                             /\ ev[i].content =
                                   IF p \in rdfail' THEN Error
                                   ELSE Text(fs[p].content)]_vars

\* the second registration of the path got an Error, the file changed, and
\* the poll pass sent the new content to both tokens
C18_Witness ==
    /\ "a" \in DOMAIN tasks
    /\ regs["a"] = <<1, 2>>
    /\ tasks["a"].opaque = <<"t1", "t2">>
    /\ sinks[2] = <<Error>>
    /\ Len(emitted) = 2
    /\ emitted[2] = [path |-> "a", opaque |-> "t2",
                     content |-> Text(fs["a"].content)]
    /\ events = Wire(emitted)

\* ---- C19 ----
\* C19: a Watch for a tracked path whose file is newer than the entry gets
\* the new content as its result and leaves the file newer than the entry;
\* the next poll pass that reads the file sends that content to every
\* element of the list, the late joiner included.
C19_LateJoinerGetsItTwice ==
    [][/\ (/\ WatchStep
           /\ Head(cmdq).path \in DOMAIN tasks
           /\ Newer(Head(cmdq).path)
           /\ Head(cmdq).path \notin rdfail') =>
             LET t == Head(cmdq)
                 p == t.path
             IN  /\ sinks'[t.result] = <<Text(fs[p].content)>>
                 /\ p \in DOMAIN tasks'
                 /\ fs'[p].st = "ok"
                 /\ fs'[p].mtime > tasks'[p].modified
                 /\ regs'[p][Len(regs'[p])] = t.result
       /\ PollStep =>
             \A p \in DOMAIN tasks :
                (Newer(p) /\ p \notin rdfail') =>
                   /\ Len(EventsOf(emitted', p)) = Len(regs[p])
                   /\ \A i \in 1..Len(regs[p]) :
                         /\ EventsOf(emitted', p)[i].opaque = tasks[p].opaque[i]
                         /\ EventsOf(emitted', p)[i].content =
                               Text(fs[p].content)]_vars

\* the late joiner's result was the new content, and the poll pass after
\* it sent the same content to both tokens
C19_Witness ==
    /\ nreq = 2
    /\ regs["a"] = <<1, 2>>
    /\ sinks[1] = <<Text("x")>>
    /\ sinks[2] = <<Text("y")>>
    /\ emitted = <<[path |-> "a", opaque |-> "t1", content |-> Text("y")],
                   [path |-> "a", opaque |-> "t2", content |-> Text("y")]>>
    /\ events = Wire(emitted)
    /\ fs["a"].content = "y"

\* ---- C20 ----
\* C20: every entry has a non-empty subscriber list. An entry is created by
\* a Watch whose read succeeded, with the file's modification time of that
\* moment and the one token. While the entry stays in the table its stored
\* time never decreases; it changes only in a poll pass that read the file,
\* and then to the file's time, which was greater than the stored one.
C20_ModifiedMonotone ==
    /\ [](\A p \in DOMAIN tasks : Len(tasks[p].opaque) >= 1)
    /\ [][\A p \in Paths :
            /\ (p \in DOMAIN tasks /\ p \in DOMAIN tasks') =>
                  /\ tasks'[p].modified >= tasks[p].modified
                  /\ tasks'[p].modified # tasks[p].modified =>
                        /\ PollStep
                        /\ fs[p].st = "ok"
                        /\ p \notin rdfail'
                        /\ fs[p].mtime > tasks[p].modified
                        /\ tasks'[p].modified = fs[p].mtime
            /\ (p \notin DOMAIN tasks /\ p \in DOMAIN tasks') =>
                  /\ WatchStep
                  /\ Head(cmdq).path = p
                  /\ fs[p].st = "ok"
                  /\ tasks'[p].modified = fs[p].mtime
                  /\ tasks'[p].opaque = <<Head(cmdq).opaque>>
                  /\ sinks'[Head(cmdq).result] = <<Text(fs[p].content)>>]_vars

\* the entry's time went up from 1 to 2 in a poll pass; then the file was
\* written with an older time and the next poll pass left the entry alone
C20_Witness ==
    /\ nreq = 1 /\ ops = 3
    /\ "a" \in DOMAIN tasks
    /\ tasks["a"].modified = 2
    /\ fs["a"].st = "ok" /\ fs["a"].mtime < 2
    /\ Len(events) = 1
    /\ emitted = <<>>
    /\ pc = "recv"

====
